---------------------------- MODULE Spec2Model ----------------------------
(***************************************************************************)
(* Model of the schema-driven test-data engine of                          *)
(* src/utils/test_data_manager.py: DataField / DataSchema (validate,       *)
(* _validate_type), DataGenerator, DataValidator and the schema registry   *)
(* of TestDataManager (create_schema / load_schema).                       *)
(*                                                                         *)
(* Python values are records [t, n, s]: t is the runtime type, n the       *)
(* numeric payload (an int's value, a bool's 0/1, a float's value in       *)
(* hundredths: 150 is 1.5), s the text (a str's characters, the repr       *)
(* of a list / tuple / dict).                                              *)
(***************************************************************************)
EXTENDS Integers, Sequences, FiniteSets, TLC

VARIABLES
    pc,          \* position of the running call
    schema,      \* DataSchema argument of the running call
    data,        \* validate(): the record, a mapping field name -> value
    errors,      \* validate(): the violation list it returns
    is_valid,    \* validate(): the boolean it returns
    records,     \* validate_data(): the list of records it is given
    i,           \* validate_data(): number of records the loop has processed
    results,     \* validate_data(): the report under construction
    gen_field,   \* DataGenerator: the DataField a value is generated for
    gen_value,   \* DataGenerator: what the generating method gave
    count,       \* generate_by_schema(): the number of records asked for
    data_list,   \* generate_by_schema(): the records generated so far
    _schema_cache,   \* TestDataManager._schema_cache: name -> cached schema
    schemas_dir,     \* the files <name>.json of TestDataManager.schemas_dir
    generated_dir,   \* the files of TestDataManager.generated_dir
    registered,      \* history: per name, the schema of the last create_schema
                     \* that returned True
    created,         \* history: the names whose last successful create_schema
                     \* was a call on the present manager
    call,            \* the manager call that returned last, and its result
    threads,         \* concurrent callers of one manager: per caller, the
                     \* call it runs, its position in it and its locals
    now,             \* the clock, in seconds (datetime.now() of generate_data)
    _data_cache      \* TestDataManager._data_cache: cache_key -> loaded list

\* the variables of DataSchema.validate
vars_validate == <<data, errors, is_valid>>
\* the variables of DataValidator.validate_data
vars_validate_data == <<records, i, results>>

\* the variables of the DataGenerator methods that generate one value
vars_generate_value == <<gen_field, gen_value>>

\* the variables of DataGenerator.generate_by_schema
vars_generate == <<count, data_list>>

\* the variables of the schema registry of TestDataManager
vars_registry == <<_schema_cache, schemas_dir, generated_dir, registered, created, call,
                   threads, now, _data_cache>>

vars == <<pc, schema, vars_validate, vars_validate_data, vars_generate_value,
          vars_generate, vars_registry>>

---------------------------------------------------------------------------
(* Bounds of the model *)

\* numeric constraints range over -MaxNum..MaxNum, values one step beyond
MaxNum == 2
\* length constraints range over 0..MaxLen, strings one character beyond
MaxLen == 2
\* last second of the clock
MaxClock == 1

---------------------------------------------------------------------------
(* Python values *)

NoneV == [t |-> "none", n |-> 0, s |-> ""]
\* a key the mapping does not hold (dict.get then answers None)
Absent == [t |-> "absent", n |-> 0, s |-> ""]
BoolV(b) == [t |-> "bool", n |-> IF b THEN 1 ELSE 0, s |-> ""]
IntV(k) == [t |-> "int", n |-> k, s |-> ""]
\* line 225, round(..., 2): the floats a generated value is among are the
\* multiples of 1 / Hundredths
Hundredths == 100
\* the float h / Hundredths
FloatV(h) == [t |-> "float", n |-> h, s |-> ""]
StrV(str) == [t |-> "str", n |-> 0, s |-> str]
ListV(repr) == [t |-> "list", n |-> 0, s |-> repr]
TupleV(repr) == [t |-> "tuple", n |-> 0, s |-> repr]
DictV(repr) == [t |-> "dict", n |-> 0, s |-> repr]
\* a value json cannot encode (a set, a datetime, ...)
ObjV(repr) == [t |-> "object", n |-> 0, s |-> repr]

RECURSIVE Rep(_)
\* 'x' * k
Rep(k) == IF k <= 0 THEN "" ELSE "x" \o Rep(k - 1)

RECURSIVE Digits(_)
\* number of decimal digits of k >= 0
Digits(k) == IF k < 10 THEN 1 ELSE 1 + Digits(k \div 10)

Abs(k) == IF k < 0 THEN -k ELSE k

IsNumber(v) == v.t \in {"bool", "int", "float"}

\* the number a bool / int / float stands for, in hundredths
Num(v) == IF v.t = "float" THEN v.n ELSE Hundredths * v.n

\* Python's ==: numbers compare by value across bool / int / float
PyEq(a, b) ==
    IF IsNumber(a) /\ IsNumber(b) THEN Num(a) = Num(b) ELSE a = b

\* Python's truth value
Truthy(v) ==
    CASE v.t = "none" -> FALSE
      [] v.t \in {"bool", "int", "float"} -> v.n # 0
      [] v.t = "str" -> v.s # ""
      [] v.t \in {"list", "tuple", "dict"} -> v.s \notin {"[]", "()", "{}"}
      [] OTHER -> TRUE

\* Python's `a or b`
PyOr(a, b) == IF Truthy(a) THEN a ELSE b

\* len(str(value))
StrLen(v) ==
    CASE v.t = "str" -> Len(v.s)
      [] v.t = "int" -> Digits(Abs(v.n)) + (IF v.n < 0 THEN 1 ELSE 0)
      [] v.t = "bool" -> IF v.n = 1 THEN 4 ELSE 5
      [] v.t = "float" -> Digits(Abs(v.n) \div Hundredths) + 1
                          + (IF Abs(v.n) % 10 = 0 THEN 1 ELSE 2)
                          + (IF v.n < 0 THEN 1 ELSE 0)
      [] v.t = "none" -> 4
      [] OTHER -> Len(v.s)

\* isinstance(value, cls) for the classes type_map names
IsInstance(v, cls) ==
    CASE cls = "str" -> v.t = "str"
      [] cls = "int" -> v.t \in {"int", "bool"}
      [] cls = "int_or_float" -> v.t \in {"int", "bool", "float"}
      [] cls = "bool" -> v.t = "bool"
      [] cls = "dict_or_list" -> v.t \in {"dict", "list"}
      [] OTHER -> FALSE

---------------------------------------------------------------------------
(* DataType, DataField, DataSchema *)

DataType ==
    {"string", "integer", "float", "boolean", "date", "datetime",
     "email", "phone", "url", "uuid", "json"}

\* choices: Optional[List[Any]]; None is [isset |-> FALSE]
NoChoices == [isset |-> FALSE, items |-> <<>>]
Choices(items) == [isset |-> TRUE, items |-> items]
\* truth value of a choices attribute: None and [] are false
ChoicesTruthy(c) == c.isset /\ Len(c.items) > 0
\* value in field.choices
InChoices(v, c) == \E k \in 1..Len(c.items) : PyEq(v, c.items[k])

\* DataField(name, data_type) with the dataclass defaults
DataField(name, data_type) ==
    [name |-> name, data_type |-> data_type, required |-> TRUE,
     default_value |-> NoneV, min_length |-> NoneV, max_length |-> NoneV,
     min_value |-> NoneV, max_value |-> NoneV, pattern |-> NoneV,
     choices |-> NoChoices, faker_provider |-> NoneV,
     validation_func |-> NoneV, description |-> ""]

DataSchema(name, fields) ==
    [name |-> name, fields |-> fields, description |-> "", version |-> "1.0"]

\* the callables a validation_func may be, by id
Callable(id) == [t |-> "function", n |-> 0, s |-> id]
\* validation_func(value)
CallFunc(f, v) ==
    CASE f.s = "accept" -> TRUE
      [] f.s = "reject" -> FALSE
      [] f.s = "truthy" -> Truthy(v)
      [] OTHER -> FALSE

---------------------------------------------------------------------------
(* DataSchema.validate *)

\* one violation message: the field it names, the rule, and what the text
\* quotes (the expected type, the bound, the allowed list)
Violation(name, rule, expect, bound, allowed) ==
    [field |-> name, rule |-> rule, expect |-> expect, bound |-> bound,
     allowed |-> allowed]

type_map(data_type) ==
    CASE data_type = "string" -> "str"
      [] data_type = "integer" -> "int"
      [] data_type = "float" -> "int_or_float"
      [] data_type = "boolean" -> "bool"
      [] data_type \in {"date", "datetime", "email", "phone", "url", "uuid"} -> "str"
      [] data_type = "json" -> "dict_or_list"
      [] OTHER -> ""

_validate_type(value, data_type) ==
    LET expected_type == type_map(data_type)
    IN  IF expected_type # "" THEN IsInstance(value, expected_type) ELSE TRUE

\* data.get(field.name)
DictGet(d, name) ==
    IF name \in DOMAIN d /\ d[name].t # "absent" THEN d[name] ELSE NoneV

\* lines 92-93: the type check
TypeErrors(field, value) ==
    IF ~_validate_type(value, field.data_type)
    THEN <<Violation(field.name, "type", field.data_type, NoneV, <<>>)>>
    ELSE <<>>

\* lines 96-97: len(str(value)) < min_length
MinLengthErrors(field, value) ==
    IF field.min_length.t # "none" /\ StrLen(value) < field.min_length.n
    THEN <<Violation(field.name, "min_length", "", field.min_length, <<>>)>>
    ELSE <<>>

\* lines 99-100: len(str(value)) > max_length
MaxLengthErrors(field, value) ==
    IF field.max_length.t # "none" /\ StrLen(value) > field.max_length.n
    THEN <<Violation(field.name, "max_length", "", field.max_length, <<>>)>>
    ELSE <<>>

\* MinValueErrors with the comparison off by one (<= for <)
MinValueErrorsInclusive(field, value) ==
    IF field.min_value.t # "none" /\ IsNumber(value)
       /\ Num(value) <= Num(field.min_value)
    THEN <<Violation(field.name, "min_value", "", field.min_value, <<>>)>>
    ELSE <<>>

\* lines 103-104: value < min_value, for int / float values only
MinValueErrors(field, value) ==
    IF field.min_value.t # "none" /\ IsNumber(value)
       /\ Num(value) < Num(field.min_value)
    THEN <<Violation(field.name, "min_value", "", field.min_value, <<>>)>>
    ELSE <<>>

\* lines 106-107: value > max_value, for int / float values only
MaxValueErrors(field, value) ==
    IF field.max_value.t # "none" /\ IsNumber(value)
       /\ Num(value) > Num(field.max_value)
    THEN <<Violation(field.name, "max_value", "", field.max_value, <<>>)>>
    ELSE <<>>

\* lines 110-111: field.choices and value not in field.choices
ChoicesErrors(field, value) ==
    IF ChoicesTruthy(field.choices) /\ ~InChoices(value, field.choices)
    THEN <<Violation(field.name, "choices", "", NoneV, field.choices.items)>>
    ELSE <<>>

\* lines 114-115: the custom validator
CustomErrors(field, value) ==
    IF field.validation_func.t # "none" /\ ~CallFunc(field.validation_func, value)
    THEN <<Violation(field.name, "custom", "", NoneV, <<>>)>>
    ELSE <<>>

\* lines 86-88: a required field whose value is None
RequiredErrors(field, value) ==
    <<Violation(field.name, "required", "", NoneV, <<>>)>>

\* PresentErrors with choices taking precedence: a field with choices runs
\* the choices check (and the custom validator) only
PresentErrorsChoicesFirst(field, value) ==
    IF ChoicesTruthy(field.choices)
    THEN ChoicesErrors(field, value) \o CustomErrors(field, value)
    ELSE TypeErrors(field, value) \o MinLengthErrors(field, value)
         \o MaxLengthErrors(field, value) \o MinValueErrors(field, value)
         \o MaxValueErrors(field, value) \o CustomErrors(field, value)

\* PresentErrors stopping at the first rule that fails
PresentErrorsFirstOnly(field, value) ==
    LET all == TypeErrors(field, value) \o MinLengthErrors(field, value)
               \o MaxLengthErrors(field, value) \o MinValueErrors(field, value)
               \o MaxValueErrors(field, value) \o ChoicesErrors(field, value)
               \o CustomErrors(field, value)
    IN  IF all = <<>> THEN <<>> ELSE <<Head(all)>>

\* lines 90-115: the checks of a present value, none short-circuiting
PresentErrors(field, value) ==
    TypeErrors(field, value) \o MinLengthErrors(field, value)
    \o MaxLengthErrors(field, value) \o MinValueErrors(field, value)
    \o MaxValueErrors(field, value) \o ChoicesErrors(field, value)
    \o CustomErrors(field, value)

\* FieldErrors without the `continue` and the `is not None` guard: a missing
\* required value goes on through the other checks
FieldErrorsFallThrough(field, value) ==
    IF field.required /\ value.t = "none"
    THEN RequiredErrors(field, value) \o PresentErrors(field, value)
    ELSE IF value.t # "none" THEN PresentErrors(field, value)
    ELSE <<>>

\* FieldErrors without the `is not None` guard: an optional field's missing
\* value goes through the checks of a present one
FieldErrorsNoneChecked(field, value) ==
    IF field.required /\ value.t = "none" THEN RequiredErrors(field, value)
    ELSE PresentErrors(field, value)

\* the body of the loop over self.fields: what one field appends to errors
FieldErrors(field, value) ==
    IF field.required /\ value.t = "none" THEN RequiredErrors(field, value)
    ELSE IF value.t # "none" THEN PresentErrors(field, value)
    ELSE <<>>

RECURSIVE ValidateFromFirstInvalid(_, _, _)
\* the loop over self.fields leaving at the first field that has violations
ValidateFromFirstInvalid(fields, d, k) ==
    IF k > Len(fields) THEN <<>>
    ELSE LET errs == FieldErrors(fields[k], DictGet(d, fields[k].name))
         IN  IF errs # <<>> THEN errs ELSE ValidateFromFirstInvalid(fields, d, k + 1)

RECURSIVE ValidateFrom(_, _, _)
\* the loop over self.fields from position k on
ValidateFrom(fields, d, k) ==
    IF k > Len(fields) THEN <<>>
    ELSE FieldErrors(fields[k], DictGet(d, fields[k].name))
         \o ValidateFrom(fields, d, k + 1)

\* DataSchema.validate(data): (is_valid, errors)
validate(s, d) ==
    LET errs == ValidateFrom(s.fields, d, 1)
    IN  [is_valid |-> Len(errs) = 0, errors |-> errs]

---------------------------------------------------------------------------
(* DataGenerator *)

\* what a call gives when it raises instead of returning
Raise(kind) == [t |-> "raise", n |-> 0, s |-> kind]
Raised(v) == v.t = "raise"

\* defaults of _generate_string (lines 205-207)
DefaultMinLength == 1
DefaultMaxLength == 50
LengthCap == 100
\* defaults of _generate_integer / _generate_float (lines 217-218, 223-224)
DefaultMinValue == 0
DefaultMaxValue == 1000

Min(a, b) == IF a <= b THEN a ELSE b
Max(a, b) == IF a >= b THEN a ELSE b

\* int(x) of a number: truncation towards zero
PyInt(v) ==
    IF v.t = "float"
    THEN (IF v.n >= 0 THEN v.n \div Hundredths ELSE -((-v.n) \div Hundredths))
    ELSE v.n

\* random.randint(a, b): any integer of [a, b]; ValueError on an empty range
randint(a, b) ==
    IF a > b THEN {Raise("ValueError")} ELSE {IntV(k) : k \in a..b}

\* random.choice(seq): any element
choice(seq) == {seq[k] : k \in 1..Len(seq)}

\* round(random.uniform(a, b), 2): any float of two decimals between a and
\* b (a and b in hundredths; the ends may come in either order)
uniform(a, b) == {FloatV(h) : h \in Min(a, b)..Max(a, b)}

\* faker.text(max_nb_chars): at most max_nb_chars characters, at least a
\* one-letter word and its full stop; ValueError below 5
FakerText(max_nb_chars) ==
    IF max_nb_chars < 5 THEN {Raise("ValueError")}
    ELSE {StrV(Rep(k)) : k \in 2..max_nb_chars}

\* faker.lexify(text): every '?' replaced by a letter
FakerLexify(length) == {StrV(Rep(length))}

\* x.isoformat(): a method of date / datetime objects, not of str
isoformat(x) ==
    IF x.t = "datetime" THEN StrV(x.s) ELSE Raise("AttributeError")

\* faker.date() gives the date as a str, faker.date_time() a datetime
FakerDate == StrV("2001-02-03")
FakerDateTime == [t |-> "datetime", n |-> 0, s |-> "2001-02-03T04:05:06"]
FakerEmail == StrV("user@example.org")
FakerPhone == StrV("13812345678")
FakerUrl == StrV("https://www.example.org/")
FakerUuid4 == StrV("123e4567-e89b-42d3-a456-426614174000")
FakerJson == DictV("{'key': 'w', 'value': 'S.'}")
\* the provider methods getattr(self.faker, name) finds
FakerProviders == {"first_name", "email", "uuid4"}
FakerProvided(name) == StrV(name \o "_value")

_generate_string(f) ==
    LET min_len == PyOr(f.min_length, IntV(DefaultMinLength))
        max_len == PyOr(f.max_length, IntV(DefaultMaxLength))
        lengths == randint(min_len.n, Min(max_len.n, LengthCap))
    IN  UNION { IF Raised(length) THEN {length}
                ELSE IF Truthy(f.pattern) THEN FakerLexify(length.n)
                ELSE FakerText(length.n) : length \in lengths }

_generate_integer(f) ==
    LET min_val == PyOr(f.min_value, IntV(DefaultMinValue))
        max_val == PyOr(f.max_value, IntV(DefaultMaxValue))
    IN  randint(PyInt(min_val), PyInt(max_val))

_generate_float(f) ==
    LET min_val == PyOr(f.min_value, FloatV(Hundredths * DefaultMinValue))
        max_val == PyOr(f.max_value, FloatV(Hundredths * DefaultMaxValue))
    IN  uniform(Num(min_val), Num(max_val))

\* lines 195-201: the faker_provider fallback after the type dispatch
ProviderFallback(f) ==
    IF Truthy(f.faker_provider) /\ f.faker_provider.s \in FakerProviders
    THEN {FakerProvided(f.faker_provider.s)}
    ELSE {f.default_value}

\* lines 171-192: the dispatch on field.data_type
TypeDispatch(f) ==
    CASE f.data_type = "string" -> _generate_string(f)
      [] f.data_type = "integer" -> _generate_integer(f)
      [] f.data_type = "float" -> _generate_float(f)
      [] f.data_type = "boolean" -> choice(<<BoolV(TRUE), BoolV(FALSE)>>)
      [] f.data_type = "date" -> {isoformat(FakerDate)}
      [] f.data_type = "datetime" -> {isoformat(FakerDateTime)}
      [] f.data_type = "email" -> {FakerEmail}
      [] f.data_type = "phone" -> {FakerPhone}
      [] f.data_type = "url" -> {FakerUrl}
      [] f.data_type = "uuid" -> {FakerUuid4}
      [] f.data_type = "json" -> {FakerJson}
      [] OTHER -> ProviderFallback(f)

\* _generate_field_value with the optional-default step ahead of the choices
_generate_field_value_default_first(f) ==
    (IF f.default_value.t # "none" /\ ~f.required THEN {f.default_value} ELSE {})
    \cup (IF ChoicesTruthy(f.choices) THEN choice(f.choices.items) ELSE TypeDispatch(f))

\* lines 160-201: every value the call may give (random.random() < 0.3
\* may fall either way)
_generate_field_value(f) ==
    IF ChoicesTruthy(f.choices) THEN choice(f.choices.items)
    ELSE (IF f.default_value.t # "none" /\ ~f.required THEN {f.default_value} ELSE {})
         \cup TypeDispatch(f)

RECURSIVE PickSeqs(_, _)
\* the values the calls for fields 1..k may give, as sequences; a call that
\* raises ends the sequence (the exception leaves the loop)
PickSeqs(fields, k) ==
    IF k = 0 THEN {<<>>}
    ELSE LET before == PickSeqs(fields, k - 1)
         IN  {p \in before : p # <<>> /\ Raised(p[Len(p)])}
             \cup {Append(p, v) : p \in {q \in before : Len(q) = k - 1
                                                      /\ (q = <<>> \/ ~Raised(q[Len(q)]))},
                                  v \in _generate_field_value(fields[k])}

\* RecordOf with `data = {}` inside the loop over the fields: only the last
\* field's value stays in the record
RecordOfLastField(fields, p) ==
    [n \in {fields[k].name : k \in {Len(fields)} \ {0}} |-> p[Len(fields)]]

\* lines 153-155: the record built from one pick per field (a later field
\* of the same name overwrites an earlier one)
RecordOf(fields, p) ==
    [n \in {fields[k].name : k \in 1..Len(fields)} |->
        p[CHOOSE k \in 1..Len(fields) :
            /\ fields[k].name = n
            /\ \A j \in 1..Len(fields) : fields[j].name = n => j <= k]]

\* no generate_by_schema call is running
IdleGenerate == count = 0 /\ data_list = <<>>

\* no value is being generated
IdleGenerateValue == gen_field = DataField("", "string") /\ gen_value = NoneV

---------------------------------------------------------------------------
(* TestDataManager: the schema registry (create_schema, load_schema) *)

\* what json.load gives back for the repr json.dump wrote: a tuple comes
\* back as a list, a dict's int keys as str keys
JsonRepr(repr) ==
    CASE repr = "(1,)" -> "[1]"
      [] repr = "()" -> "[]"
      [] repr = "{1: 2}" -> "{'1': 2}"
      [] OTHER -> repr

\* json.dump accepts the value (no `default=` is given in create_schema)
JsonEncodable(v) ==
    v.t \in {"none", "bool", "int", "float", "str", "list", "tuple", "dict"}

\* json.load(json.dump(v)) for an encodable value
JsonValue(v) ==
    CASE v.t = "tuple" -> ListV(JsonRepr(v.s))
      [] v.t \in {"list", "dict"} -> [v EXCEPT !.s = JsonRepr(v.s)]
      [] OTHER -> v

JsonChoices(c) ==
    [isset |-> c.isset, items |-> [k \in 1..Len(c.items) |-> JsonValue(c.items[k])]]

\* lines 483-496: the document entry of one field (validation_func is not
\* among the keys)
FieldData(f) ==
    [name |-> f.name, data_type |-> f.data_type, required |-> f.required,
     default_value |-> JsonValue(f.default_value),
     min_length |-> JsonValue(f.min_length), max_length |-> JsonValue(f.max_length),
     min_value |-> JsonValue(f.min_value), max_value |-> JsonValue(f.max_value),
     pattern |-> JsonValue(f.pattern), choices |-> JsonChoices(f.choices),
     faker_provider |-> JsonValue(f.faker_provider), description |-> f.description]

\* lines 478-498: schema_data, as the document json.dump writes
SchemaData(sch) ==
    [name |-> sch.name, description |-> sch.description, version |-> sch.version,
     fields |-> [k \in 1..Len(sch.fields) |-> FieldData(sch.fields[k])]]

\* line 501: json.dump(schema_data, f) runs to the end (else TypeError)
Dumpable(sch) ==
    \A k \in 1..Len(sch.fields) :
        /\ JsonEncodable(sch.fields[k].default_value)
        /\ \A j \in 1..Len(sch.fields[k].choices.items) :
              JsonEncodable(sch.fields[k].choices.items[j])

\* a file of schemas_dir: missing, text that is not a JSON document (an
\* interrupted write), or a JSON document
NoDocument == [name |-> "", description |-> "", version |-> "", fields |-> <<>>]
NoFile == [kind |-> "absent", doc |-> NoDocument]
CorruptFile == [kind |-> "corrupt", doc |-> NoDocument]
JsonFile(doc) == [kind |-> "json", doc |-> doc]

\* an entry of _schema_cache, and the Optional[DataSchema] of a return
NoSchema == [present |-> FALSE, schema |-> DataSchema("", <<>>)]
Some(sch) == [present |-> TRUE, schema |-> sch]

\* lines 526-541: DataField(...) from one document entry; DataType(...)
\* raises ValueError on a name that is not a DataType
FieldFromData(fd) ==
    [name |-> fd.name, data_type |-> fd.data_type, required |-> fd.required,
     default_value |-> fd.default_value, min_length |-> fd.min_length,
     max_length |-> fd.max_length, min_value |-> fd.min_value,
     max_value |-> fd.max_value, pattern |-> fd.pattern, choices |-> fd.choices,
     faker_provider |-> fd.faker_provider, validation_func |-> NoneV,
     description |-> fd.description]

\* lines 522-548 run without an exception on this file
Loadable(file) ==
    /\ file.kind = "json"
    /\ \A k \in 1..Len(file.doc.fields) : file.doc.fields[k].data_type \in DataType

\* lines 543-548: the DataSchema built from the document
SchemaFromData(doc) ==
    [name |-> doc.name,
     fields |-> [k \in 1..Len(doc.fields) |-> FieldFromData(doc.fields[k])],
     description |-> doc.description, version |-> doc.version]

\* the record kept of a call: the name it was about, and what it returned
\* (create_schema: ok is the bool; load_schema and generate_data: ok is
\* `is not None`; validate_test_data: ok is a report without 'error');
\* ret is the schema the call resolved, source the path it took, report
\* the report of validate_test_data (empty for the other calls), count the
\* length of the list load_test_data returned (0 for the other calls)
Call(op, name, ok, ret, source) ==
    [op |-> op, name |-> name, ok |-> ok, ret |-> ret, source |-> source,
     report |-> [total |-> 0, valid |-> 0, invalid |-> 0, errors |-> <<>>],
     count |-> 0]

\* create_schema leaving a name that is already cached as it is
CacheAfterCreateKeepFirst(cache, sch) ==
    IF cache[sch.name].present THEN cache ELSE [cache EXCEPT ![sch.name] = Some(sch)]

\* line 503: self._schema_cache[schema.name] = schema
CacheAfterCreate(cache, sch) == [cache EXCEPT ![sch.name] = Some(sch)]

\* load_schema caching its result whether or not it found a schema
CacheAfterLoadAlways(cache, name, found) ==
    [cache EXCEPT ![name] = IF found.present THEN found ELSE Some(found.schema)]

\* load_schema returning what it read without caching it
CacheAfterLoadNever(cache, name, found) == cache

\* line 550: self._schema_cache[schema_name] = schema, reached only when the
\* document was read and parsed
CacheAfterLoad(cache, name, found) ==
    IF found.present THEN [cache EXCEPT ![name] = found] ELSE cache

\* line 517: self.schemas_dir / f"{schema_name}.json": the file a name leads
\* to (pathlib drops a leading './', so './s' leads to the file of 's')
FileOf(name) == IF name = "./s" THEN "s" ELSE name

\* lines 516-555: what load_schema reads from the store for a name that
\* is not cached: None when the file is missing or cannot be deserialized
ReadSchema(dir, name) ==
    IF Loadable(dir[FileOf(name)]) THEN Some(SchemaFromData(dir[FileOf(name)].doc))
    ELSE NoSchema

\* load_schema answering an unknown name with an empty schema of that name
LoadResultOrDefault(cache, dir, name) ==
    IF cache[name].present THEN cache[name]
    ELSE IF Loadable(dir[name]) THEN ReadSchema(dir, name)
    ELSE Some(DataSchema(name, <<>>))

\* lines 513-555: what load_schema(name) returns
LoadResult(cache, dir, name) ==
    IF cache[name].present THEN cache[name] ELSE ReadSchema(dir, name)

\* lines 513-550: the cache load_schema(name) leaves
CacheAfterLoadSchema(cache, dir, name) ==
    IF cache[name].present THEN cache
    ELSE CacheAfterLoad(cache, name, ReadSchema(dir, name))

\* a file of generated_dir, kept by the number of records written to it
NoData == [kind |-> "absent", count |-> 0]
DataFile(n) == [kind |-> "json", count |-> n]

\* line 477: schema_file = self.schemas_dir / f"{schema.name}.json", by the
\* name the file is kept under in schemas_dir
schema_file_shared(sch) == "s"
schema_file(sch) == sch.name

\* create_schema dropping the cached entry of the name when it fails
CacheAfterFailedCreateEvict(cache, sch) == [cache EXCEPT ![sch.name] = NoSchema]
\* lines 507-509: the except branch of create_schema does not touch the cache
CacheAfterFailedCreate(cache, sch) == cache

\* lines 569-574: the file <schema_name>_<%Y%m%d_%H%M%S>.json of
\* generated_dir a generate_data call of second `at` writes
Stamps == 0..MaxClock
Location(name, at) == <<name, at>>

\* a path given to load_test_data: its suffix and the file it names
Path(suffix, loc) == [suffix |-> suffix, loc |-> loc]
\* lines 275-291: load_from_json gives the list in the file (here by its
\* length), [] when the file cannot be opened
LoadFromJson(dir, loc) == IF dir[loc].kind = "json" THEN dir[loc].count ELSE 0
\* lines 606-616: the list load_test_data loads, [] for an unknown suffix
LoadedData(dir, path) ==
    IF path.suffix = ".json" THEN LoadFromJson(dir, path.loc) ELSE 0

\* an entry of _data_cache: the cached list, by its length
NoList == [present |-> FALSE, count |-> 0]
CachedList(n) == [present |-> TRUE, count |-> n]
\* the cache keys in use ('' is a key that is never looked up)
DataKeys == {"", "k"}
\* line 603: cache_key and cache_key in self._data_cache
DataCacheHit(cache, key) == Truthy(key) /\ cache[key.s].present
\* load_test_data caching whatever it loaded
DataCacheAfterLoadAlways(cache, key, n) ==
    IF Truthy(key) THEN [cache EXCEPT ![key.s] = CachedList(n)] ELSE cache
\* lines 618-619: if cache_key and data: self._data_cache[cache_key] = data
DataCacheAfterLoad(cache, key, n) ==
    IF Truthy(key) /\ n > 0 THEN [cache EXCEPT ![key.s] = CachedList(n)] ELSE cache

\* lines 148-158: generate_by_schema(sch, n) can leave by an exception of a
\* value call (n > 0), resp. can return its n records
MayRaise(sch, n) ==
    /\ n > 0
    /\ {p \in PickSeqs(sch.fields, Len(sch.fields)) :
           p # <<>> /\ Raised(p[Len(p)])} # {}
MayReturn(sch, n) ==
    \/ n = 0
    \/ {p \in PickSeqs(sch.fields, Len(sch.fields)) :
           Len(p) = Len(sch.fields) /\ (p = <<>> \/ ~Raised(p[Len(p)]))} # {}

\* the schema names the registry is used with
Names == {"s", "t"}
\* the names load_schema is called with: the schema names, and another
\* spelling of one of them
SchemaKeys == Names \cup {"./s"}

\* the concurrent callers, and a caller that runs nothing
Threads == {"T1", "T2"}
Thread(op, arg, at) == [op |-> op, arg |-> arg, pc |-> at, doc |-> NoFile, ret |-> NoSchema]
NoThreads == [t \in Threads |-> Thread("", DataSchema("", <<>>), "done")]

\* the registry is not in use
IdleRegistry ==
    /\ _schema_cache = [n \in SchemaKeys |-> NoSchema]
    /\ schemas_dir = [n \in Names |-> NoFile]
    /\ generated_dir = [f \in Names \X Stamps |-> NoData]
    /\ now = 0
    /\ _data_cache = [k \in DataKeys |-> NoList]
    /\ registered = [n \in Names |-> NoSchema]
    /\ created = {}
    /\ call = Call("", "", FALSE, NoSchema, "")
    /\ threads = NoThreads

---------------------------------------------------------------------------
(* Inputs of the validation runs *)

\* Optional[int] length constraints
OptLen == {NoneV} \cup {IntV(k) : k \in 0..MaxLen}
\* Optional[int | float] range constraints
OptNum == {NoneV, FloatV(Hundredths \div 2)} \cup {IntV(k) : k \in -MaxNum..MaxNum}
\* choices attributes: None, the empty list, and two lists
ChoiceLists ==
    {NoChoices, Choices(<<>>), Choices(<<IntV(1), StrV("a")>>),
     Choices(<<StrV(Rep(MaxLen + 1)), IntV(MaxNum + 1), DictV("{}")>>)}
\* validation_func attributes
OptFunc == {NoneV, Callable("accept"), Callable("reject")}

\* values a record may hold for a field
Numbers ==
    {IntV(k) : k \in -(MaxNum + 1)..(MaxNum + 1)}
    \cup {FloatV((Hundredths \div 2) * h) : h \in -(2 * MaxNum + 1)..(2 * MaxNum + 1)}
    \cup {FloatV(Hundredths \div 2 + 1)}
    \cup {BoolV(TRUE), BoolV(FALSE)}
Strings == {StrV(Rep(k)) : k \in 0..(MaxLen + 1)} \cup {StrV("a")}
Structured == {DictV("{}"), DictV("{'k': 1}"), ListV("[]"), ListV("[1]"), TupleV("(1,)")}
Values == Numbers \cup Strings \cup Structured
\* what a record holds under a key: a value, None, or nothing
Entries == Values \cup {NoneV, Absent}

\* fields that vary the range constraints only
RangeFields(name) ==
    {[DataField(name, dt) EXCEPT !.required = rq, !.min_value = lo, !.max_value = hi] :
        dt \in DataType, rq \in BOOLEAN, lo \in OptNum, hi \in OptNum}
\* fields that vary the length constraints only
LengthFields(name) ==
    {[DataField(name, dt) EXCEPT !.required = rq, !.min_length = lo, !.max_length = hi] :
        dt \in DataType, rq \in BOOLEAN, lo \in OptLen, hi \in OptLen}
\* fields that combine every kind of constraint
MixedFields(name) ==
    {[DataField(name, dt) EXCEPT !.required = rq, !.min_length = ml[1],
                                 !.max_length = ml[2], !.min_value = mv[1],
                                 !.max_value = mv[2], !.choices = ch,
                                 !.validation_func = vf] :
        dt \in {"string", "integer", "float", "boolean", "email", "json"},
        rq \in BOOLEAN,
        ml \in {<<NoneV, NoneV>>, <<IntV(MaxLen), NoneV>>, <<NoneV, IntV(1)>>},
        mv \in {<<NoneV, NoneV>>, <<IntV(1), NoneV>>, <<NoneV, IntV(0)>>},
        ch \in ChoiceLists, vf \in OptFunc}
\* the fields of the two-field schemas
PairFields(name) ==
    {[DataField(name, dt) EXCEPT !.required = rq, !.min_length = ml, !.max_value = hi] :
        dt \in {"string", "integer"}, rq \in BOOLEAN,
        ml \in {NoneV, IntV(MaxLen)}, hi \in {NoneV, IntV(0)}}
PairEntries == {Absent, NoneV, IntV(0), IntV(MaxNum + 1), StrV("a"), StrV(Rep(MaxLen))}

\* the fields of the one-field schemas
SingleFields == RangeFields("a") \cup LengthFields("a") \cup MixedFields("a")

---------------------------------------------------------------------------
(* DataValidator.validate_data *)

\* lines 405-410: the report before the loop
NewResults(d) == [total |-> Len(d), valid |-> 0, invalid |-> 0, errors |-> <<>>]

\* CountItem forgetting to count an invalid record (it is only listed)
CountItemListOnly(res, index, item, verdict) ==
    IF verdict.is_valid
    THEN [res EXCEPT !.valid = @ + 1]
    ELSE [res EXCEPT !.errors = Append(@, [index |-> index, data |-> item,
                                            errors |-> verdict.errors])]

\* an element of the list that is not a dict is kept as the value it is
\* ([t, n, s]); a dict maps its keys to values
IsMapping(item) == DOMAIN item # {"t", "n", "s"}

\* validation_func(value) raises
CallRaises(f, v) == f.t = "function" /\ f.s = "raises"

\* schema.validate(item) leaves by an exception: data.get of an item that is
\* not a dict (line 83, AttributeError), or a validation_func that raises
\* on a present value (line 114)
ValidateRaises(s, item) ==
    \/ ~IsMapping(item)
    \/ \E k \in 1..Len(s.fields) :
          /\ DictGet(item, s.fields[k].name).t # "none"
          /\ CallRaises(s.fields[k].validation_func, DictGet(item, s.fields[k].name))

\* CountItem numbering the records from 1
CountItemOneBased(res, index, item, verdict) ==
    IF verdict.is_valid
    THEN [res EXCEPT !.valid = @ + 1]
    ELSE [res EXCEPT !.invalid = @ + 1,
                     !.errors = Append(@, [index |-> index + 1, data |-> item,
                                            errors |-> verdict.errors])]

\* lines 413-422: one iteration of the loop, on the record at 0-based index
CountItem(res, index, item, verdict) ==
    IF verdict.is_valid
    THEN [res EXCEPT !.valid = @ + 1]
    ELSE [res EXCEPT !.invalid = @ + 1,
                     !.errors = Append(@, [index |-> index, data |-> item,
                                            errors |-> verdict.errors])]

\* lines 403-424 run to the end: the report of validate_data(d, s)
RECURSIVE ValidateDataFrom(_, _, _, _)
ValidateDataFrom(res, d, s, k) ==
    IF k > Len(d) THEN res
    ELSE ValidateDataFrom(CountItem(res, k - 1, d[k], validate(s, d[k])), d, s, k + 1)
validate_data(d, s) == ValidateDataFrom(NewResults(d), d, s, 1)

\* no validate_data call is running
IdleValidateData == records = <<>> /\ i = 0 /\ results = NewResults(<<>>)
\* no validate call is running
IdleValidate == data = <<>> /\ errors = <<>> /\ is_valid = FALSE

---------------------------------------------------------------------------
(* SpecValidate: one call of DataSchema.validate *)

\* the (schema, record) pairs validate is run on: field names are unique
\* within a schema (the data model's invariant)
InitValidate ==
    /\ pc = "call"
    /\ \/ \E f \in SingleFields, e \in Entries :
            /\ schema = DataSchema("s", <<f>>)
            /\ data = [k \in {"a"} |-> e]
       \/ \E fa \in PairFields("a"), fb \in PairFields("b"),
             d \in [{"a", "b"} -> PairEntries], swap \in BOOLEAN :
            /\ schema = DataSchema("s", IF swap THEN <<fb, fa>> ELSE <<fa, fb>>)
            /\ data = d
    /\ errors = <<>>
    /\ is_valid = FALSE
    /\ IdleValidateData
    /\ IdleGenerateValue
    /\ IdleGenerate
    /\ IdleRegistry

\* schema.validate(data) runs to its return
Validate ==
    /\ pc = "call"
    /\ LET r == validate(schema, data)
       IN  errors' = r.errors /\ is_valid' = r.is_valid
    /\ pc' = "return"
    /\ UNCHANGED <<schema, data, vars_validate_data, vars_generate_value, vars_generate, vars_registry>>

NextValidate == Validate

SpecValidate == InitValidate /\ [][NextValidate]_vars

---------------------------------------------------------------------------
(* SpecValidateData: one call of DataValidator.validate_data *)

\* longest record list
MaxRecords == 3

\* the schemas and the records of the batches
BatchSchemas ==
    {DataSchema("s", <<f>>) : f \in PairFields("a")}
    \cup {DataSchema("s", <<[DataField("a", "integer") EXCEPT
                                !.validation_func = Callable("raises")]>>)}
\* dicts, and an element that is a list instead of a dict
BatchRecords == {[k \in {"a"} |-> e] : e \in PairEntries} \cup {ListV("[1]")}

RECURSIVE Lists(_, _)
\* the lists of at most n elements of S
Lists(S, n) ==
    IF n = 0 THEN {<<>>}
    ELSE Lists(S, n - 1) \cup {Append(l, x) : l \in {m \in Lists(S, n - 1) : Len(m) = n - 1}, x \in S}

InitValidateData ==
    /\ pc = "loop"
    /\ schema \in BatchSchemas
    /\ records \in Lists(BatchRecords, MaxRecords)
    /\ i = 0
    /\ results = NewResults(records)
    /\ IdleValidate
    /\ IdleGenerateValue
    /\ IdleGenerate
    /\ IdleRegistry

\* lines 412-422: the loop body on the next record
ValidateItem ==
    /\ pc = "loop"
    /\ i < Len(records)
    /\ IF ValidateRaises(schema, records[i + 1])
       THEN \* line 413: the exception of schema.validate leaves validate_data
            pc' = "raised" /\ UNCHANGED <<results, i>>
       ELSE /\ results' = CountItem(results, i, records[i + 1],
                                    validate(schema, records[i + 1]))
            /\ i' = i + 1
            /\ pc' = pc
    /\ UNCHANGED <<schema, records, vars_validate, vars_generate_value, vars_generate, vars_registry>>

\* line 424: the loop is over, the report is returned
ValidateDataReturn ==
    /\ pc = "loop"
    /\ i = Len(records)
    /\ pc' = "return"
    /\ UNCHANGED <<schema, vars_validate, vars_validate_data, vars_generate_value, vars_generate, vars_registry>>

NextValidateData == ValidateItem \/ ValidateDataReturn

SpecValidateData == InitValidateData /\ [][NextValidateData]_vars

\* C2: the report has total == len(records) throughout, valid + invalid
\* equals the number of records processed after every iteration, and
\* valid + invalid == total in the report returned.
C2_ReportTotals ==
    /\ results.total = Len(records)
    /\ results.valid + results.invalid = i
    /\ pc = "return" => results.valid + results.invalid = results.total

\* a report over a full-length batch with valid and invalid records was returned
C2_Witness ==
    /\ pc = "return"
    /\ Len(records) = MaxRecords
    /\ results.valid > 0
    /\ results.invalid > 0

\* C17: validate_data returns a report for any list of records and any
\* schema: it does not leave by an exception, whatever the records are
C17_BatchNeverRaises == pc # "raised"

\* C19: in the report returned, 'errors' has one entry per invalid record
\* (len(errors) == invalid), in strictly increasing 0-based record index;
\* the entry of index k holds records[k] as its data and the non-empty
\* violation list schema.validate gave for that record
C19_ErrorList ==
    pc = "return" =>
        /\ Len(results.errors) = results.invalid
        /\ \A k \in 1..Len(results.errors) :
              LET e == results.errors[k]
              IN  /\ e.index \in 0..(Len(records) - 1)
                  /\ e.data = records[e.index + 1]
                  /\ e.errors # <<>>
                  /\ e.errors = validate(schema, e.data).errors
                  /\ k > 1 => results.errors[k - 1].index < e.index
        /\ \A j \in 1..Len(records) :
              ~validate(schema, records[j]).is_valid
                <=> \E k \in 1..Len(results.errors) : results.errors[k].index = j - 1

\* a report over a full-length batch whose first record is valid and whose
\* last two are invalid was returned
C19_Witness ==
    /\ pc = "return"
    /\ Len(records) = MaxRecords
    /\ Len(results.errors) = 2
    /\ results.errors[1].index = MaxRecords - 2
    /\ results.errors[2].index = MaxRecords - 1

---------------------------------------------------------------------------
(* SpecGenerateValue: one call of a value-generating method of DataGenerator *)

\* default_value attributes
Defaults == {NoneV, IntV(MaxNum + 1), StrV("a")}
\* fields that vary requiredness, default, choices, pattern and provider
DefaultFields(name) ==
    {[DataField(name, dt) EXCEPT !.required = rq, !.default_value = dv,
                                 !.choices = ch, !.pattern = pt,
                                 !.faker_provider = fp] :
        dt \in DataType, rq \in BOOLEAN, dv \in Defaults, ch \in ChoiceLists,
        pt \in {NoneV, StrV("[a-z]+")}, fp \in {NoneV, StrV("first_name")}}
\* fields with a single lower bound, above the default upper bound that
\* the generating method then uses, and the float fields of the default range
EdgeFields(name) ==
    {[DataField(name, "integer") EXCEPT !.min_value = IntV(DefaultMaxValue + 1)],
     [DataField(name, "float") EXCEPT !.min_value = IntV(DefaultMaxValue + 1)],
     DataField(name, "float"),
     [DataField(name, "float") EXCEPT !.required = FALSE, !.min_value = IntV(1),
                                      !.max_value = IntV(0)],
     [DataField(name, "string") EXCEPT !.min_length = IntV(DefaultMaxLength + 1)],
     [DataField(name, "string") EXCEPT !.min_length = IntV(DefaultMaxLength + 1),
                                       !.pattern = StrV("[a-z]+")]}
\* the fields values are generated for; of the float fields whose value is
\* drawn from a range wider than the range constraints of OptNum span (one
\* end is a default of lines 223-224), the ones of EdgeFields
GenFields ==
    LET WideFloat(f) ==
            /\ f.data_type = "float"
            /\ ~ChoicesTruthy(f.choices)
            /\ LET min_val == PyOr(f.min_value, FloatV(Hundredths * DefaultMinValue))
                   max_val == PyOr(f.max_value, FloatV(Hundredths * DefaultMaxValue))
               IN  Abs(Num(max_val) - Num(min_val)) > Hundredths * 2 * MaxNum
    IN  {f \in SingleFields \cup DefaultFields("a") : ~WideFloat(f)}
        \cup EdgeFields("a")

InitGenerateValue ==
    /\ pc = "call"
    /\ gen_field \in GenFields
    /\ gen_value = NoneV
    /\ schema = DataSchema("s", <<gen_field>>)
    /\ IdleValidate
    /\ IdleValidateData
    /\ IdleGenerate
    /\ IdleRegistry

\* self._generate_field_value(field)
GenerateFieldValue ==
    /\ pc = "call"
    /\ gen_value' \in _generate_field_value(gen_field)
    /\ pc' = "_generate_field_value"
    /\ UNCHANGED <<gen_field, schema, vars_validate, vars_validate_data, vars_generate, vars_registry>>

\* self._generate_integer(field), which the dispatch calls for INTEGER fields
GenerateInteger ==
    /\ pc = "call"
    /\ gen_field.data_type = "integer"
    /\ gen_value' \in _generate_integer(gen_field)
    /\ pc' = "_generate_integer"
    /\ UNCHANGED <<gen_field, schema, vars_validate, vars_validate_data, vars_generate, vars_registry>>

NextGenerateValue == GenerateFieldValue \/ GenerateInteger

SpecGenerateValue == InitGenerateValue /\ [][NextGenerateValue]_vars

\* C5 as stated: for an integer field whose min_value <= max_value are
\* both set (0 and negative bounds included), what _generate_integer
\* returns lies in [min_value, max_value].
C5_IntegerInRange ==
    (/\ pc = "_generate_integer"
     /\ gen_field.min_value.t # "none" /\ gen_field.max_value.t # "none"
     /\ Num(gen_field.min_value) <= Num(gen_field.max_value))
    => /\ ~Raised(gen_value)
       /\ Num(gen_field.min_value) <= Num(gen_value)
       /\ Num(gen_value) <= Num(gen_field.max_value)

\* a bound is unset or a number, and a lower bound is not above its upper one
Ordered(lo, hi) ==
    /\ lo.t = "none" \/ IsNumber(lo)
    /\ hi.t = "none" \/ IsNumber(hi)
    /\ (IsNumber(lo) /\ IsNumber(hi)) => Num(lo) <= Num(hi)
WellFormed(f) ==
    /\ Ordered(f.min_length, f.max_length)
    /\ Ordered(f.min_value, f.max_value)

\* C15: for a field whose constraints are not contradictory,
\* _generate_field_value returns a value and does not raise
C15_GenerationSucceeds ==
    (pc = "_generate_field_value" /\ WellFormed(gen_field)) => ~Raised(gen_value)

\* C6: for a field whose choices is a non-empty list, what
\* _generate_field_value returns is a member of choices, whatever the
\* data_type, required, default_value, faker_provider and constraints.
C6_ChoicesRestrictGeneration ==
    (/\ pc = "_generate_field_value"
     /\ gen_field.choices.isset /\ gen_field.choices.items # <<>>)
    => \E k \in 1..Len(gen_field.choices.items) : gen_value = gen_field.choices.items[k]

\* an optional field with a default outside its choices had a value
\* generated
C6_Witness ==
    /\ pc = "_generate_field_value"
    /\ gen_field.choices = Choices(<<IntV(1), StrV("a")>>)
    /\ ~gen_field.required
    /\ gen_field.default_value = IntV(MaxNum + 1)
    /\ gen_field.faker_provider # NoneV
    /\ gen_value = StrV("a")

\* C21: for a field without choices (and without a default that could be
\* returned instead) whose faker_provider names a provider of the faker,
\* _generate_field_value returns what that provider gives
C21_HintPreferred ==
    (/\ pc = "_generate_field_value"
     /\ ~gen_field.choices.isset
     /\ gen_field.default_value.t = "none"
     /\ gen_field.faker_provider.t = "str"
     /\ gen_field.faker_provider.s \in FakerProviders)
    => gen_value = FakerProvided(gen_field.faker_provider.s)

---------------------------------------------------------------------------
(* SpecGenerate: generate_by_schema(schema, count), then validate_data on
   what it returned *)

\* largest count
MaxCount == 2

\* the fields of the schemas that are generated from more than once: few
\* values each, so that the batches stay enumerable
BatchFieldsA ==
    {[DataField("a", dt) EXCEPT !.required = rq, !.default_value = dv,
                                !.min_value = IntV(1), !.max_value = hi,
                                !.choices = ch] :
        dt \in {"boolean", "email", "integer"}, rq \in BOOLEAN,
        dv \in {NoneV, IntV(MaxNum + 1)}, hi \in {IntV(1), IntV(MaxNum)},
        ch \in {NoChoices, Choices(<<IntV(1), StrV("a")>>)}}
BatchFieldsB ==
    {DataField("b", "boolean"),
     [DataField("b", "string") EXCEPT !.choices = Choices(<<StrV("a"), StrV(Rep(MaxLen))>>)]}

InitGenerate ==
    /\ pc = "generate"
    /\ count \in 0..MaxCount
    /\ \/ /\ count <= 1
          /\ \E f \in GenFields : schema = DataSchema("s", <<f>>)
       \/ \E fa \in BatchFieldsA, fb \in BatchFieldsB, swap \in BOOLEAN :
             schema = DataSchema("s", IF swap THEN <<fb, fa>> ELSE <<fa, fb>>)
    /\ data_list = <<>>
    /\ IdleValidate
    /\ IdleValidateData
    /\ IdleGenerateValue
    /\ IdleRegistry

\* lines 152-156: one iteration of `for _ in range(count)`; a value call
\* that raises ends generate_by_schema with the exception
GenerateRecord ==
    /\ pc = "generate"
    /\ Len(data_list) < count
    /\ \E p \in PickSeqs(schema.fields, Len(schema.fields)) :
         IF p # <<>> /\ Raised(p[Len(p)])
         THEN pc' = "raised" /\ UNCHANGED data_list
         ELSE pc' = pc /\ data_list' = Append(data_list, RecordOf(schema.fields, p))
    /\ UNCHANGED <<schema, count, vars_validate, vars_validate_data, vars_generate_value,
                   vars_registry>>

\* line 158: return data_list
GenerateReturn ==
    /\ pc = "generate"
    /\ Len(data_list) = count
    /\ pc' = "generated"
    /\ UNCHANGED <<schema, vars_generate, vars_validate, vars_validate_data,
                   vars_generate_value, vars_registry>>

\* DataValidator.validate_data(data_list, schema) on the returned records
ValidateGenerated ==
    /\ pc = "generated"
    /\ records' = data_list
    /\ i' = Len(data_list)
    /\ results' = validate_data(data_list, schema)
    /\ pc' = "validated"
    /\ UNCHANGED <<schema, vars_generate, vars_validate, vars_generate_value, vars_registry>>

NextGenerate == GenerateRecord \/ GenerateReturn \/ ValidateGenerated

SpecGenerate == InitGenerate /\ [][NextGenerate]_vars

\* an integer / float field constrained by a range with integer bounds
\* lo <= hi and by nothing else: no default, no choices, no length
\* constraint, no custom validator
PlainRangeField(f) ==
    /\ f.data_type \in {"integer", "float"}
    /\ f.default_value.t = "none" /\ ~f.choices.isset
    /\ f.min_length.t = "none" /\ f.max_length.t = "none"
    /\ f.validation_func.t = "none"
    /\ f.min_value.t = "int" /\ f.max_value.t = "int"
    /\ f.min_value.n <= f.max_value.n

\* C1 as stated, on the schemas that ask least of the generator (numeric
\* fields constrained by a range lo <= hi only): the records generate_by_schema
\* returns all pass the schema's validate, i.e.
\* validate_data(generate_by_schema(S, N), S)['invalid'] == 0.
C1_GeneratedRecordsValid ==
    (/\ pc = "validated"
     /\ \A k \in 1..Len(schema.fields) : PlainRangeField(schema.fields[k]))
    => results.invalid = 0

\* C16: generate_by_schema(S, count), count >= 0, returns exactly count
\* records (none for count == 0), and the key set of each record is exactly
\* the set of the field names of S, each key holding one generated value
C16_RecordShape ==
    pc \in {"generated", "validated"} =>
        /\ Len(data_list) = count
        /\ \A k \in 1..Len(data_list) :
              /\ DOMAIN data_list[k] = {schema.fields[j].name : j \in 1..Len(schema.fields)}
              /\ \A j \in 1..Len(schema.fields) :
                    ~Raised(data_list[k][schema.fields[j].name])

\* a two-field schema gave MaxCount records that differ from each other
C16_Witness ==
    /\ pc = "generated"
    /\ count = MaxCount
    /\ Len(schema.fields) = 2
    /\ Len(data_list) = MaxCount
    /\ data_list[1] # data_list[MaxCount]

---------------------------------------------------------------------------
(* Claims about one call of validate, checked under SpecValidate *)

\* the violations of the returned list that name field `name`
ErrorsNaming(name) == SelectSeq(errors, LAMBDA e : e.field = name)
\* the rules of the violations that name field `name`
RulesNaming(name) == {ErrorsNaming(name)[k].rule : k \in 1..Len(ErrorsNaming(name))}
FieldIndexes == 1..Len(schema.fields)
ValueOf(f) == DictGet(data, f.name)

\* C3: a required field that the record lacks (or holds as None) makes the
\* record invalid and contributes exactly one violation, the 'required' one,
\* whatever other constraints the field carries.
C3_RequiredMissing ==
    pc = "return" =>
      \A k \in FieldIndexes :
        LET f == schema.fields[k]
        IN  (f.required /\ ValueOf(f).t = "none") =>
              /\ ~is_valid
              /\ Len(ErrorsNaming(f.name)) = 1
              /\ ErrorsNaming(f.name)[1].rule = "required"

\* a required field with length, choices and custom constraints, absent
\* from the record, was validated
C3_Witness ==
    /\ pc = "return"
    /\ Len(schema.fields) = 1
    /\ schema.fields[1].required
    /\ schema.fields[1].min_length.t = "int"
    /\ ChoicesTruthy(schema.fields[1].choices)
    /\ schema.fields[1].validation_func = Callable("reject")
    /\ data["a"] = Absent
    /\ Len(errors) = 1

\* the field carries a range and nothing else
RangeOnly(f) ==
    /\ f.data_type \in {"integer", "float"}
    /\ f.min_value.t # "none" /\ f.max_value.t # "none"
    /\ Num(f.min_value) <= Num(f.max_value)
    /\ f.min_length.t = "none" /\ f.max_length.t = "none"
    /\ ~f.choices.isset /\ f.validation_func.t = "none"

\* C4: for an integer / float field with min_value = lo <= max_value = hi
\* and no other constraint, a numeric value gets a range violation iff
\* it is < lo or > hi; a value of the field's type inside [lo, hi] (the
\* bounds included) gets no violation at all, one outside makes the record
\* invalid.
C4_RangeBoundary ==
    pc = "return" =>
      \A k \in FieldIndexes :
        LET f == schema.fields[k]
            v == ValueOf(f)
            outside == Num(v) < Num(f.min_value) \/ Num(v) > Num(f.max_value)
        IN  (RangeOnly(f) /\ IsNumber(v)) =>
              /\ (RulesNaming(f.name) \cap {"min_value", "max_value"} # {}) <=> outside
              /\ outside => ~is_valid
              /\ (~outside /\ _validate_type(v, f.data_type))
                    => ErrorsNaming(f.name) = <<>>

\* an integer field with both bounds was validated on the value hi + 1
C4_Witness ==
    /\ pc = "return"
    /\ Len(schema.fields) = 1
    /\ RangeOnly(schema.fields[1])
    /\ schema.fields[1].data_type = "integer"
    /\ data["a"].t = "int"
    /\ data["a"].n = schema.fields[1].max_value.n + 1
    /\ RulesNaming("a") = {"max_value"}

\* C7 as stated: for a field whose choices is set (a list, the empty list
\* included), a present value that is not a member makes the record invalid
\* with a choices violation listing the allowed values; a member gets no
\* choices violation.
C7_ChoicesChecked ==
    pc = "return" =>
      \A k \in FieldIndexes :
        LET f == schema.fields[k]
            v == ValueOf(f)
            member == \E j \in 1..Len(f.choices.items) : PyEq(v, f.choices.items[j])
        IN  (f.choices.isset /\ v.t # "none") =>
              IF member
              THEN "choices" \notin RulesNaming(f.name)
              ELSE /\ ~is_valid
                   /\ \E j \in 1..Len(errors) :
                        /\ errors[j].field = f.name
                        /\ errors[j].rule = "choices"
                        /\ errors[j].allowed = f.choices.items

\* C8 as stated: a member of choices gets no violation at all for its
\* field, whatever the type, length and range constraints are.
C8_MemberNoViolation ==
    pc = "return" =>
      \A k \in FieldIndexes :
        LET f == schema.fields[k]
            v == ValueOf(f)
        IN  (ChoicesTruthy(f.choices) /\ v.t # "none" /\ InChoices(v, f.choices))
              => ErrorsNaming(f.name) = <<>>

\* C8 amended: a member of choices gets no choices violation, and the type,
\* length and range rules still apply to it: each of them that the value
\* fails appears among the field's violations.
C8_MemberStillChecked ==
    pc = "return" =>
      \A k \in FieldIndexes :
        LET f == schema.fields[k]
            v == ValueOf(f)
            rules == RulesNaming(f.name)
        IN  (ChoicesTruthy(f.choices) /\ v.t # "none" /\ InChoices(v, f.choices)) =>
              /\ "choices" \notin rules
              /\ ("type" \in rules) <=> ~IsInstance(v, type_map(f.data_type))
              /\ ("min_length" \in rules)
                   <=> (f.min_length.t # "none" /\ StrLen(v) < f.min_length.n)
              /\ ("max_length" \in rules)
                   <=> (f.max_length.t # "none" /\ StrLen(v) > f.max_length.n)
              /\ ("min_value" \in rules)
                   <=> (f.min_value.t # "none" /\ IsNumber(v) /\ Num(v) < Num(f.min_value))
              /\ ("max_value" \in rules)
                   <=> (f.max_value.t # "none" /\ IsNumber(v) /\ Num(v) > Num(f.max_value))

\* an integer field with choices [1, 'a'] was validated on the member 'a',
\* which got a type violation
C8_Witness ==
    /\ pc = "return"
    /\ Len(schema.fields) = 1
    /\ schema.fields[1].data_type = "integer"
    /\ schema.fields[1].choices = Choices(<<IntV(1), StrV("a")>>)
    /\ data["a"] = StrV("a")
    /\ "type" \in RulesNaming("a")
    /\ "choices" \notin RulesNaming("a")

\* the rules a present value fails for a field, each by its own condition
FailingRules(f, v) ==
    (IF ~IsInstance(v, type_map(f.data_type)) THEN {"type"} ELSE {})
    \cup (IF f.min_length.t # "none" /\ StrLen(v) < f.min_length.n
          THEN {"min_length"} ELSE {})
    \cup (IF f.max_length.t # "none" /\ StrLen(v) > f.max_length.n
          THEN {"max_length"} ELSE {})
    \cup (IF f.min_value.t # "none" /\ IsNumber(v) /\ Num(v) < Num(f.min_value)
          THEN {"min_value"} ELSE {})
    \cup (IF f.max_value.t # "none" /\ IsNumber(v) /\ Num(v) > Num(f.max_value)
          THEN {"max_value"} ELSE {})
    \cup (IF f.choices.isset /\ f.choices.items # <<>> /\ ~InChoices(v, f.choices)
          THEN {"choices"} ELSE {})
    \cup (IF f.validation_func.t # "none" /\ ~CallFunc(f.validation_func, v)
          THEN {"custom"} ELSE {})

\* the position in the schema of the field a violation names
FieldIndexOf(e) == CHOOSE k \in FieldIndexes : schema.fields[k].name = e.field

\* C20: for a present (non-None) value, validate appends one violation per
\* failing rule among type, min_length, max_length, min_value, max_value,
\* choices and custom validator: the violations naming the field are as many
\* as its failing rules, one of each; the violations of different fields
\* come in field-declaration order
C20_NoShortCircuit ==
    pc = "return" =>
        /\ \A k \in FieldIndexes :
             LET f == schema.fields[k]
             IN  ValueOf(f).t # "none" =>
                   /\ Len(ErrorsNaming(f.name)) = Cardinality(FailingRules(f, ValueOf(f)))
                   /\ RulesNaming(f.name) = FailingRules(f, ValueOf(f))
        /\ \A a, b \in 1..Len(errors) :
             a < b => FieldIndexOf(errors[a]) <= FieldIndexOf(errors[b])

\* a two-field schema whose first field failed two rules and whose second
\* field failed one was validated
C20_Witness ==
    /\ pc = "return"
    /\ Len(schema.fields) = 2
    /\ ValueOf(schema.fields[1]).t # "none"
    /\ Len(ErrorsNaming(schema.fields[1].name)) >= 2
    /\ ValueOf(schema.fields[2]).t # "none"
    /\ Len(ErrorsNaming(schema.fields[2].name)) >= 1

\* C22: a field of data_type integer, float, boolean or json gets no
\* min_length / max_length violation, whatever its value and length bounds
C22_LengthStringLikeOnly ==
    pc = "return" =>
        \A k \in FieldIndexes :
            schema.fields[k].data_type \in {"integer", "float", "boolean", "json"}
                => RulesNaming(schema.fields[k].name) \cap {"min_length", "max_length"} = {}

\* how many times x occurs in a sequence
Occurrences(seq, x) == Cardinality({k \in 1..Len(seq) : seq[k] = x})
\* the fields in the opposite order
Reversed(fields) == [k \in 1..Len(fields) |-> fields[Len(fields) + 1 - k]]

\* C23: the schema with its fields in another order gives, for the same
\* record, the same is_valid and the same violations, each as many times
C23_OrderIrrelevant ==
    pc = "return" =>
        LET other == validate(DataSchema(schema.name, Reversed(schema.fields)), data)
        IN  /\ other.is_valid = is_valid
            /\ Len(other.errors) = Len(errors)
            /\ \A k \in 1..Len(errors) :
                  Occurrences(other.errors, errors[k]) = Occurrences(errors, errors[k])

\* a two-field schema whose fields both have violations was validated: the
\* other order gives the violations in another sequence
C23_Witness ==
    /\ pc = "return"
    /\ Len(schema.fields) = 2
    /\ ErrorsNaming(schema.fields[1].name) # <<>>
    /\ ErrorsNaming(schema.fields[2].name) # <<>>
    /\ validate(DataSchema(schema.name, Reversed(schema.fields)), data).errors # errors

\* C24: a field with required=False whose key the record lacks, or holds as
\* None, gets no violation, whatever its other constraints
C24_OptionalAbsent ==
    pc = "return" =>
        \A k \in FieldIndexes :
            (~schema.fields[k].required /\ ValueOf(schema.fields[k]).t = "none")
                => ErrorsNaming(schema.fields[k].name) = <<>>

\* an optional field with length, choices and a rejecting validator, absent
\* from the record, was validated and the record is valid
C24_Witness ==
    /\ pc = "return"
    /\ Len(schema.fields) = 1
    /\ ~schema.fields[1].required
    /\ ValueOf(schema.fields[1]).t = "none"
    /\ schema.fields[1].min_length.t # "none"
    /\ schema.fields[1].choices.items # <<>>
    /\ schema.fields[1].validation_func = Callable("reject")
    /\ is_valid

\* C25: a bool value passes the type check of a boolean field only: for a
\* field of any other data_type it gets the type violation
C25_BoolIsNotNumber ==
    pc = "return" =>
        \A k \in FieldIndexes :
            ValueOf(schema.fields[k]).t = "bool" =>
                ("type" \in RulesNaming(schema.fields[k].name)
                    <=> schema.fields[k].data_type # "boolean")

---------------------------------------------------------------------------
(* Spec: the schema registry of one data directory, used by a sequence of
   create_schema / load_schema calls and re-opened by new managers *)

\* the fields of the schemas that are registered: a validator, and defaults
\* that json encodes as they are (None), changes (a tuple) or rejects (a set)
RegistryFields(name) ==
    {[DataField(name, "integer") EXCEPT !.required = FALSE, !.default_value = dv[1],
                                        !.validation_func = dv[2],
                                        !.max_value = IntV(1)] :
        dv \in {<<NoneV, Callable("accept")>>, <<TupleV("(1,)"), NoneV>>,
                <<ObjV("{1}"), NoneV>>}}
RegistrySchemas(name) ==
    {DataSchema(name, <<f>>) : f \in RegistryFields("a")}
    \cup
    {[DataSchema(name, <<[DataField("a", "string") EXCEPT !.max_length = IntV(5)],
                         [DataField("b", "json") EXCEPT
                             !.choices = Choices(<<DictV("{1: 2}")>>)]>>)
         EXCEPT !.version = "2.0", !.description = "two fields"]}

\* a document another program left: valid JSON, an unknown data_type
ForeignFile ==
    JsonFile([name |-> "x", description |-> "", version |-> "1.0",
              fields |-> <<FieldData(DataField("a", "text"))>>])

\* the record lists validate_test_data is given
TestData == {<<>>, <<[a |-> IntV(0)]>>, <<[a |-> IntV(1)], [b |-> NoneV]>>}

Init ==
    /\ pc = "idle"
    /\ schema = DataSchema("", <<>>)
    /\ _schema_cache = [n \in SchemaKeys |-> NoSchema]
    /\ schemas_dir \in [Names -> {NoFile, CorruptFile, ForeignFile}]
    /\ generated_dir = [f \in Names \X Stamps |-> NoData]
    /\ now = 0
    /\ _data_cache = [k \in DataKeys |-> NoList]
    /\ registered = [n \in Names |-> NoSchema]
    /\ created = {}
    /\ call = Call("__init__", "", TRUE, NoSchema, "")
    /\ threads = NoThreads
    /\ IdleValidate
    /\ IdleValidateData
    /\ IdleGenerateValue
    /\ IdleGenerate

engine_vars == <<pc, schema, vars_validate, vars_validate_data, vars_generate_value,
                 vars_generate, threads>>
other_vars == <<engine_vars, now, _data_cache>>

\* TestDataManager.__init__ on the same data_dir: empty caches, the files stay
NewManager ==
    /\ _schema_cache' = [n \in SchemaKeys |-> NoSchema]
    /\ created' = {}
    /\ _data_cache' = [k \in DataKeys |-> NoList]
    /\ call' = Call("__init__", "", TRUE, NoSchema, "")
    /\ UNCHANGED <<schemas_dir, generated_dir, registered, engine_vars, now>>

\* create_schema(sch), lines 474-509
CreateSchema(sch) ==
    \/ \* line 500: open(schema_file, 'w') raises (OSError): nothing is written
       /\ _schema_cache' = CacheAfterFailedCreate(_schema_cache, sch)
       /\ call' = Call("create_schema", sch.name, FALSE, NoSchema, "open")
       /\ UNCHANGED <<schemas_dir, generated_dir, registered, created, other_vars>>
    \/ \* line 501: the file is open (truncated) and json.dump raises TypeError
       \* part-way: what was written so far stays in the file
       /\ ~Dumpable(sch)
       /\ schemas_dir' = [schemas_dir EXCEPT ![schema_file(sch)] = CorruptFile]
       /\ _schema_cache' = CacheAfterFailedCreate(_schema_cache, sch)
       /\ call' = Call("create_schema", sch.name, FALSE, NoSchema, "dump")
       /\ UNCHANGED <<generated_dir, registered, created, other_vars>>
    \/ \* lines 500-505: the document is written, the schema cached
       /\ Dumpable(sch)
       /\ schemas_dir' = [schemas_dir EXCEPT
                             ![schema_file(sch)] = JsonFile(SchemaData(sch))]
       /\ _schema_cache' = CacheAfterCreate(_schema_cache, sch)
       /\ registered' = [registered EXCEPT ![sch.name] = Some(sch)]
       /\ created' = created \cup {sch.name}
       /\ call' = Call("create_schema", sch.name, TRUE, NoSchema, "")
       /\ UNCHANGED <<generated_dir, other_vars>>

\* load_schema(name), lines 511-555
LoadSchema(name) ==
    /\ _schema_cache' = CacheAfterLoadSchema(_schema_cache, schemas_dir, name)
    /\ LET found == LoadResult(_schema_cache, schemas_dir, name)
       IN  call' = Call("load_schema", name, found.present, found,
                        IF _schema_cache[name].present THEN "cache" ELSE "store")
    /\ UNCHANGED <<schemas_dir, generated_dir, registered, created, other_vars>>

\* generate_data(name, n) with the JSON format, lines 557-597
GenerateData(name, n) ==
    LET found == LoadResult(_schema_cache, schemas_dir, name)
    IN  /\ _schema_cache' = CacheAfterLoadSchema(_schema_cache, schemas_dir, name)
        /\ \/ \* lines 561-562: the name does not resolve
              /\ ~found.present
              /\ call' = Call("generate_data", name, FALSE, found, "unresolved")
              /\ UNCHANGED generated_dir
           \/ \* line 566 raises, caught at line 595
              /\ found.present
              /\ MayRaise(found.schema, n)
              /\ call' = Call("generate_data", name, FALSE, found, "raised")
              /\ UNCHANGED generated_dir
           \/ \* save_to_json (lines 354-361) cannot open the file
              /\ found.present
              /\ MayReturn(found.schema, n)
              /\ call' = Call("generate_data", name, FALSE, found, "save")
              /\ UNCHANGED generated_dir
           \/ \* lines 566-591: the records are written to <name>_<timestamp>.json
              /\ found.present
              /\ MayReturn(found.schema, n)
              /\ generated_dir' = [generated_dir EXCEPT
                                       ![Location(name, now)] = DataFile(n)]
              /\ call' = Call("generate_data", name, TRUE, found, "saved")
        /\ UNCHANGED <<schemas_dir, registered, created, other_vars>>

\* validate_test_data(d, name), lines 623-630
ValidateTestData(d, name) ==
    LET found == LoadResult(_schema_cache, schemas_dir, name)
    IN  /\ _schema_cache' = CacheAfterLoadSchema(_schema_cache, schemas_dir, name)
        /\ IF ~found.present
           THEN \* lines 627-628: {'error': ...}
                call' = Call("validate_test_data", name, FALSE, found, "unresolved")
           ELSE \* line 630: the report of validate_data is returned
                call' = [Call("validate_test_data", name, TRUE, found, "validated")
                            EXCEPT !.report = validate_data(d, found.schema)]
        /\ UNCHANGED <<schemas_dir, generated_dir, registered, created, other_vars>>

\* load_test_data(path, key), lines 599-621
LoadTestData(path, key) ==
    /\ IF DataCacheHit(_data_cache, key)
       THEN \* lines 603-604: the cached list, no file is read
            /\ call' = [Call("load_test_data", key.s, TRUE, NoSchema, "cache")
                           EXCEPT !.count = _data_cache[key.s].count]
            /\ UNCHANGED _data_cache
       ELSE \* lines 606-621
            LET n == LoadedData(generated_dir, path)
            IN  /\ _data_cache' = DataCacheAfterLoad(_data_cache, key, n)
                /\ call' = [Call("load_test_data", key.s, TRUE, NoSchema, "file")
                               EXCEPT !.count = n]
    /\ UNCHANGED <<_schema_cache, schemas_dir, generated_dir, registered, created,
                   engine_vars, now>>

\* the paths and the cache keys load_test_data is called with
TestPaths == {Path(sfx, loc) : sfx \in {".json", ".txt"}, loc \in Names \X Stamps}
CacheKeys == {NoneV, StrV(""), StrV("k")}

\* the calls a manager gets within one second of the clock (SpecData
\* follows the data files over the seconds)
Next ==
    \/ NewManager
    \/ \E n \in Names : \E sch \in RegistrySchemas(n) : CreateSchema(sch)
    \/ \E n \in Names : LoadSchema(n)
    \/ \E n \in Names : GenerateData(n, MaxCount)
    \/ \E n \in Names : \E d \in TestData : ValidateTestData(d, n)
    \/ \E n \in Names, sfx \in {".json", ".txt"}, key \in CacheKeys :
          LoadTestData(Path(sfx, Location(n, now)), key)

Spec == Init /\ [][Next]_vars

---------------------------------------------------------------------------
(* SpecData: the files of generated_dir over the seconds of the clock, and
   the lists load_test_data loads from them, for a manager that has a schema
   registered under the name "s" *)

InitData ==
    /\ pc = "idle"
    /\ schema = DataSchema("", <<>>)
    /\ \E sch \in {x \in RegistrySchemas("s") : Dumpable(x)} :
          /\ _schema_cache = [n \in SchemaKeys |->
                                 IF n = sch.name THEN Some(sch) ELSE NoSchema]
          /\ schemas_dir = [n \in Names |->
                               IF n = schema_file(sch) THEN JsonFile(SchemaData(sch))
                               ELSE NoFile]
          /\ registered = [n \in Names |-> IF n = sch.name THEN Some(sch) ELSE NoSchema]
          /\ created = {sch.name}
    /\ generated_dir = [f \in Names \X Stamps |-> NoData]
    /\ now = 0
    /\ _data_cache = [k \in DataKeys |-> NoList]
    /\ call = Call("create_schema", "s", TRUE, NoSchema, "")
    /\ threads = NoThreads
    /\ IdleValidate
    /\ IdleValidateData
    /\ IdleGenerateValue
    /\ IdleGenerate

\* a second passes
Tick ==
    /\ now < MaxClock
    /\ now' = now + 1
    /\ UNCHANGED <<_schema_cache, schemas_dir, generated_dir, registered, created,
                   call, engine_vars, _data_cache>>

NextData ==
    \/ Tick
    \/ NewManager
    \/ \E n \in Names : \E k \in 0..MaxCount : GenerateData(n, k)
    \/ \E path \in TestPaths, key \in CacheKeys : LoadTestData(path, key)

SpecData == InitData /\ [][NextData]_vars

\* C26: a generate_data call that succeeds (a step in which no second
\* passes) returns a location that no earlier successful call returned: no
\* file is at that location before the call
C26_NeverOverwritten ==
    [][(now' = now /\ call'.op = "generate_data" /\ call'.ok)
       => generated_dir[Location(call'.name, now)].kind = "absent"]_vars

\* C30: every entry of _data_cache is a non-empty list; a load_test_data
\* with a cached key returns the cached list (whatever the path, no file
\* being read); no call of the manager replaces or evicts an entry
C30_DataCache ==
    /\ [](\A k \in DataKeys : _data_cache[k].present => _data_cache[k].count > 0)
    /\ [][(now' = now /\ call'.op = "load_test_data" /\ _data_cache[call'.name].present)
          => (call'.source = "cache" /\ call'.count = _data_cache[call'.name].count)]_vars
    /\ [][call'.op # "__init__"
          => \A k \in DataKeys :
                _data_cache[k].present => _data_cache'[k] = _data_cache[k]]_vars

\* a load_test_data returned a cached list that no file holds any more
C30_Witness ==
    /\ call.op = "load_test_data"
    /\ call.source = "cache"
    /\ call.count > 0
    /\ \A f \in Names \X Stamps : generated_dir[f].count # call.count

---------------------------------------------------------------------------
(* SpecKeys: create_schema and load_schema on a store that starts empty,
   load_schema being called with every spelling of the names *)

InitKeys ==
    /\ pc = "idle"
    /\ schema = DataSchema("", <<>>)
    /\ IdleRegistry
    /\ IdleValidate
    /\ IdleValidateData
    /\ IdleGenerateValue
    /\ IdleGenerate

NextKeys ==
    \/ NewManager
    \/ \E n \in Names : \E sch \in RegistrySchemas(n) : CreateSchema(sch)
    \/ \E n \in SchemaKeys : LoadSchema(n)

SpecKeys == InitKeys /\ [][NextKeys]_vars

\* C29: every entry of the schema cache is kept under the name of its
\* schema: _schema_cache[k].name == k
C29_CacheKeyIsName ==
    \A k \in SchemaKeys : _schema_cache[k].present => _schema_cache[k].schema.name = k

---------------------------------------------------------------------------
(* Claims about the schema registry *)

\* the last call was a load_schema answered from the stored document that
\* the last successful create_schema of that name wrote
LoadedFromStore ==
    /\ call.op = "load_schema"
    /\ call.source = "store"
    /\ call.ok
    /\ registered[call.name].present

\* C9: create_schema(S) succeeded and load_schema(S.name) on a manager
\* that does not have the name cached returns a schema equal to S in name,
\* version, description, field order and every field attribute,
\* validation_func included
C9_RoundTripEqual ==
    LoadedFromStore => call.ret.schema = registered[call.name].schema

\* C10: a load_schema of a name that is not cached and whose document is
\* missing or cannot be deserialized returns None (it does not raise) and
\* leaves _schema_cache as it was
C10_LoadMissing ==
    [][(/\ call'.op = "load_schema"
        /\ ~_schema_cache[call'.name].present
        /\ ~Loadable(schemas_dir[call'.name]))
       => (/\ ~call'.ok
           /\ call'.ret = NoSchema
           /\ _schema_cache' = _schema_cache)]_vars

\* a load of a name whose document is there and cannot be deserialized has
\* returned None, while another name is cached
C10_Witness ==
    /\ call.op = "load_schema"
    /\ ~call.ok
    /\ schemas_dir[call.name].kind \in {"corrupt", "json"}
    /\ ~_schema_cache[call.name].present
    /\ \E n \in Names : _schema_cache[n].present

\* what a name resolves to: the schema a load_schema(n) would return
Resolves(cache, dir, n) ==
    IF cache[n].present THEN cache[n]
    ELSE IF Loadable(dir[n]) THEN Some(SchemaFromData(dir[n].doc))
    ELSE NoSchema

\* C11: after a create_schema(S) of this manager returned True, the name
\* S.name is cached as S and every load_schema, generate_data and
\* validate_test_data of that name resolves S, until a later create_schema
\* of the name returns True (then the newer schema); load_schema,
\* generate_data and validate_test_data change no name's resolution
C11_LastWriteWins ==
    /\ [](\A n \in created : _schema_cache[n] = registered[n])
    /\ []((call.op \in {"load_schema", "generate_data", "validate_test_data"}
             /\ call.name \in created)
          => call.ret = registered[call.name])
    /\ [][call'.op \in {"load_schema", "generate_data", "validate_test_data"}
          => \A n \in Names : Resolves(_schema_cache', schemas_dir', n)
                                = Resolves(_schema_cache, schemas_dir, n)]_vars

\* a load_schema returned the schema this manager registered, after a later
\* create_schema of the same name had failed and damaged the document
C11_Witness ==
    /\ call.op = "load_schema"
    /\ call.name \in created
    /\ call.ret = registered[call.name]
    /\ schemas_dir[call.name].kind = "corrupt"

\* C12: load_schema(name) returns the cached definition, whatever the store
\* holds, when name is cached; otherwise, when the store has a well-formed
\* document for name, it returns the deserialized schema and has cached it
\* under name (so a second load returns the same definition)
C12_LoadCaches ==
    [][call'.op = "load_schema" =>
         IF _schema_cache[call'.name].present
         THEN /\ call'.ret = _schema_cache[call'.name]
              /\ _schema_cache' = _schema_cache
         ELSE Loadable(schemas_dir[call'.name]) =>
                 /\ call'.ok
                 /\ call'.ret = Some(SchemaFromData(schemas_dir[call'.name].doc))
                 /\ _schema_cache'[call'.name] = call'.ret]_vars

\* a second load_schema returned the definition a first one had read and
\* cached, the stored document having been damaged in between
C12_Witness ==
    /\ call.op = "load_schema"
    /\ call.source = "cache"
    /\ call.name \notin created
    /\ call.ret.present
    /\ ~Loadable(schemas_dir[call.name])

\* C13: generate_data and validate_test_data of a name that does not resolve
\* return their failure outcome (None, resp. an error result): no record is
\* generated or validated, nothing is written to generated_dir, and the call
\* does not raise
C13_SchemaNotFound ==
    [][(/\ call'.op \in {"generate_data", "validate_test_data"}
        /\ ~_schema_cache[call'.name].present
        /\ ~Loadable(schemas_dir[call'.name]))
       => (/\ ~call'.ok
           /\ call'.source = "unresolved"
           /\ ~call'.ret.present
           /\ call'.report = NewResults(<<>>)
           /\ generated_dir' = generated_dir
           /\ _schema_cache' = _schema_cache)]_vars

\* generate_data returned None for a name whose document cannot be
\* deserialized, while the other name has generated data
C13_Witness ==
    /\ call.op = "generate_data"
    /\ call.source = "unresolved"
    /\ schemas_dir[call.name].kind \in {"corrupt", "json"}
    /\ \A at \in Stamps : generated_dir[Location(call.name, at)].kind = "absent"
    /\ \E f \in Names \X Stamps : generated_dir[f].kind = "json"

\* C27: a create_schema that returns False leaves _schema_cache as it was:
\* the name still resolves to the schema that was cached for it, or to
\* what the store holds when none was cached
C27_FailedCreateKeepsCache ==
    [][(call'.op = "create_schema" /\ ~call'.ok)
       => (/\ _schema_cache' = _schema_cache
           /\ Resolves(_schema_cache', schemas_dir', call'.name)
                = IF _schema_cache[call'.name].present THEN _schema_cache[call'.name]
                  ELSE IF Loadable(schemas_dir'[call'.name])
                       THEN Some(SchemaFromData(schemas_dir'[call'.name].doc))
                       ELSE NoSchema)]_vars

\* a create_schema of a registered name failed in json.dump and the name is
\* still cached as the schema registered before
C27_Witness ==
    /\ call.op = "create_schema"
    /\ ~call.ok
    /\ call.source = "dump"
    /\ call.name \in created
    /\ _schema_cache[call.name] = registered[call.name]

C14_AllOrNothing ==
    [][(call'.op \in {"create_schema", "generate_data"} /\ ~call'.ok)
       => (schemas_dir' = schemas_dir /\ generated_dir' = generated_dir)]_vars

---------------------------------------------------------------------------
(* SpecConcurrent: create_schema and load_schema calls for one name, run by
   concurrent callers of one manager. The code takes no lock: the statements
   of the calls interleave, and the write of the file (lines 500-501) and
   the update of the cache (line 503, line 550) are separate steps *)

\* the name the callers use, and the schemas they register (their documents
\* have the same length: a later write replaces an earlier one entirely)
SharedName == "s"
SharedSchemas ==
    {[DataSchema(SharedName, <<DataField("a", "integer")>>) EXCEPT !.version = v] :
        v \in {"1.0", "2.0", "3.0"}}

InitConcurrent ==
    /\ pc = "threads"
    /\ schema = DataSchema("", <<>>)
    /\ _schema_cache = [n \in SchemaKeys |-> NoSchema]
    /\ \E file \in {NoFile} \cup {JsonFile(SchemaData(sch)) : sch \in SharedSchemas} :
          schemas_dir = [n \in Names |-> IF n = SharedName THEN file ELSE NoFile]
    /\ generated_dir = [f \in Names \X Stamps |-> NoData]
    /\ now = 0
    /\ _data_cache = [k \in DataKeys |-> NoList]
    /\ registered = [n \in Names |-> NoSchema]
    /\ created = {}
    /\ call = Call("", "", FALSE, NoSchema, "")
    /\ threads \in [Threads ->
          {Thread("create_schema", sch, "open") : sch \in SharedSchemas}
          \cup {Thread("load_schema", DataSchema("", <<>>), "check")}]
    /\ IdleValidate
    /\ IdleValidateData
    /\ IdleGenerateValue
    /\ IdleGenerate

unshared_vars == <<pc, schema, vars_validate, vars_validate_data, vars_generate_value,
                   vars_generate, generated_dir, registered, created, call, now,
                   _data_cache>>

\* line 500 of create_schema: open(schema_file, 'w') truncates the file
CreateOpen(t) ==
    /\ threads[t].op = "create_schema" /\ threads[t].pc = "open"
    /\ schemas_dir' = [schemas_dir EXCEPT ![SharedName] = CorruptFile]
    /\ threads' = [threads EXCEPT ![t].pc = "dump"]
    /\ UNCHANGED <<_schema_cache, unshared_vars>>

\* line 501 of create_schema: json.dump, and the file is closed
CreateDump(t) ==
    /\ threads[t].op = "create_schema" /\ threads[t].pc = "dump"
    /\ schemas_dir' = [schemas_dir EXCEPT
                          ![SharedName] = JsonFile(SchemaData(threads[t].arg))]
    /\ threads' = [threads EXCEPT ![t].pc = "cache"]
    /\ UNCHANGED <<_schema_cache, unshared_vars>>

\* lines 503-505 of create_schema
CreateCache(t) ==
    /\ threads[t].op = "create_schema" /\ threads[t].pc = "cache"
    /\ _schema_cache' = CacheAfterCreate(_schema_cache, threads[t].arg)
    /\ threads' = [threads EXCEPT ![t].pc = "done", ![t].ret = Some(threads[t].arg)]
    /\ UNCHANGED <<schemas_dir, unshared_vars>>

\* lines 513-514 of load_schema
LoadCheck(t) ==
    /\ threads[t].op = "load_schema" /\ threads[t].pc = "check"
    /\ threads' = IF _schema_cache[SharedName].present
                  THEN [threads EXCEPT ![t].pc = "done",
                                       ![t].ret = _schema_cache[SharedName]]
                  ELSE [threads EXCEPT ![t].pc = "read"]
    /\ UNCHANGED <<_schema_cache, schemas_dir, unshared_vars>>

\* lines 517-523 of load_schema: the file is looked for and read; a missing
\* file returns None, one that is not JSON raises into line 553
LoadRead(t) ==
    /\ threads[t].op = "load_schema" /\ threads[t].pc = "read"
    /\ threads' = IF Loadable(schemas_dir[SharedName])
                  THEN [threads EXCEPT ![t].pc = "build",
                                       ![t].doc = schemas_dir[SharedName]]
                  ELSE [threads EXCEPT ![t].pc = "done"]
    /\ UNCHANGED <<_schema_cache, schemas_dir, unshared_vars>>

\* lines 525-551 of load_schema: the schema is built from what was read,
\* cached and returned
LoadBuild(t) ==
    /\ threads[t].op = "load_schema" /\ threads[t].pc = "build"
    /\ LET found == Some(SchemaFromData(threads[t].doc.doc))
       IN  /\ _schema_cache' = CacheAfterLoad(_schema_cache, SharedName, found)
           /\ threads' = [threads EXCEPT ![t].pc = "done", ![t].ret = found]
    /\ UNCHANGED <<schemas_dir, unshared_vars>>

NextConcurrent ==
    \E t \in Threads :
        \/ CreateOpen(t)
        \/ CreateDump(t)
        \/ CreateCache(t)
        \/ LoadCheck(t)
        \/ LoadRead(t)
        \/ LoadBuild(t)

SpecConcurrent == InitConcurrent /\ [][NextConcurrent]_vars

\* C18: once every concurrent call for the name has completed, the schema
\* cached under the name is equivalent to the document stored for it
C18_CacheMatchesStore ==
    (\A t \in Threads : threads[t].pc = "done") =>
        (_schema_cache[SharedName].present =>
            /\ schemas_dir[SharedName].kind = "json"
            /\ schemas_dir[SharedName].doc = SchemaData(_schema_cache[SharedName].schema))

=============================================================================
